---------------------------- MODULE Spec2Model ----------------------------
(***************************************************************************)
(* kubediscovery, pkg/discovery/discovery.go: the refresh loop             *)
(* (BuildCompositionTree), the provenance store (storeProvenance,          *)
(* purgeCompositionOfDeletedItems) and the query side (GetProvenance,      *)
(* PrintProvenance, getComposition).                                       *)
(*                                                                         *)
(* Strings that the code case-folds (kinds, plurals, names) are sequences  *)
(* of one-character strings, so that strings.ToLower is computed.  Status  *)
(* values and endpoints are never folded and stay atomic strings.          *)
(***************************************************************************)
EXTENDS Integers, Sequences, FiniteSets, TLC

\* ------------------------------------------------------------------ strings

Upper == <<"A","B","C","D","E","F","G","H","I","J","K","L","M",
           "N","O","P","Q","R","S","T","U","V","W","X","Y","Z">>
Lower == <<"a","b","c","d","e","f","g","h","i","j","k","l","m",
           "n","o","p","q","r","s","t","u","v","w","x","y","z">>

LowerChar(c) ==
    IF \E i \in DOMAIN Upper : Upper[i] = c
    THEN Lower[CHOOSE i \in DOMAIN Upper : Upper[i] = c]
    ELSE c

\* strings.ToLower
ToLower(s) == [i \in DOMAIN s |-> LowerChar(s[i])]

EmptyString == << >>
Star == <<"*">>

\* ------------------------------------------------------- kinds of init()

DEPLOYMENT  == <<"D","e","p","l","o","y","m","e","n","t">>
REPLICA_SET == <<"R","e","p","l","i","c","a","S","e","t">>
POD         == <<"P","o","d">>

deployments == <<"d","e","p","l","o","y","m","e","n","t","s">>
replicasets == <<"r","e","p","l","i","c","a","s","e","t","s">>
pods        == <<"p","o","d","s">>

\* A Go map is a function on its key set; a missing key reads as the zero value.
MapGet(m, k, zero) == IF k \in DOMAIN m THEN m[k] ELSE zero
MapSet(m, k, v) == [x \in (DOMAIN m) \cup {k} |-> IF x = k THEN v ELSE m[x]]

\* The tables as init() leaves them (the leaf kinds Service, Secret,
\* PersistentVolumeClaim and PersistentVolume are set exactly like Pod and
\* are left out of the bounded model).
InitKindPluralMap ==
    (DEPLOYMENT :> deployments) @@ (REPLICA_SET :> replicasets) @@ (POD :> pods)
InitKindVersionMap ==
    (DEPLOYMENT :> "apis/apps/v1") @@ (REPLICA_SET :> "apis/extensions/v1beta1")
        @@ (POD :> "api/v1")
InitCompositionMap ==
    (DEPLOYMENT :> <<REPLICA_SET>>) @@ (REPLICA_SET :> <<POD>>) @@ (POD :> << >>)

\* ------------------------------------------------------------- sequences

RECURSIVE SeqToSet(_)
SeqToSet(s) == IF s = << >> THEN {} ELSE {Head(s)} \cup SeqToSet(Tail(s))

\* All orderings of a finite set (the orders a Go map range can produce).
RECURSIVE Perms(_)
Perms(S) ==
    IF S = {} THEN { << >> }
    ELSE UNION { { <<x>> \o p : p \in Perms(S \ {x}) } : x \in S }


\* ------------------------------------------------- Resource Lister boundary

\* A raw item of a listing's "items" array: the set of its top-level keys,
\* metadata.name, the name of its (last) metadata.ownerReferences entry, and
\* the status fields parseMetaData reads (an absent number reads as 0, an
\* absent phase as "").
ItemKeys == {"metadata", "status", "spec"}

\* The zero value of MetaDataAndOwnerReferences (OwnerReferenceKind and
\* OwnerReferenceAPIVersion are set but never read, and are left out).
ZeroMetaDataRef ==
    [MetaDataName |-> EmptyString, OwnerReferenceName |-> EmptyString, Status |-> ""]

\* The body of the range with availableReplicas left out of the comparison.
ParseKey_ignoreAvailable(item, key, st) ==
    LET afterMeta ==
            IF key = "metadata"
            THEN [st EXCEPT !.ref.MetaDataName = item.name,
                            !.ref.OwnerReferenceName = item.owner,
                            !.metadataProcessed = TRUE]
            ELSE st
        afterStatus ==
            IF key = "status"
            THEN LET phased == [afterMeta EXCEPT !.ref.Status =
                                    IF item.phase # "" THEN item.phase ELSE @]
                     ready == item.replicas > 0
                              /\ item.replicas = item.readyReplicas
                 IN [phased EXCEPT !.ref.Status = IF ready THEN "Ready" ELSE @,
                                   !.statusProcessed = TRUE]
            ELSE afterMeta
        statusKeyExists == "status" \in item.keys
        doAppend ==
            IF statusKeyExists
            THEN afterStatus.metadataProcessed /\ afterStatus.statusProcessed
            ELSE afterStatus.metadataProcessed
    IN IF doAppend
       THEN [afterStatus EXCEPT !.out = Append(@, afterStatus.ref)]
       ELSE afterStatus

\* parseMetaData, lines 703-767: the range over one item's keys, in the order
\* `order` that the map iteration happens to produce.  st is
\* [ref, metadataProcessed, statusProcessed, out].
ParseKey(item, key, st) ==
    LET afterMeta ==
            IF key = "metadata"
            THEN [st EXCEPT !.ref.MetaDataName = item.name,
                            !.ref.OwnerReferenceName = item.owner,
                            !.metadataProcessed = TRUE]
            ELSE st
        afterStatus ==
            IF key = "status"
            THEN LET phased == [afterMeta EXCEPT !.ref.Status =
                                    IF item.phase # "" THEN item.phase ELSE @]
                     ready == item.replicas > 0
                              /\ item.replicas = item.availableReplicas
                              /\ item.replicas = item.readyReplicas
                 IN [phased EXCEPT !.ref.Status = IF ready THEN "Ready" ELSE @,
                                   !.statusProcessed = TRUE]
            ELSE afterMeta
        statusKeyExists == "status" \in item.keys
        doAppend ==
            IF statusKeyExists
            THEN afterStatus.metadataProcessed /\ afterStatus.statusProcessed
            ELSE afterStatus.metadataProcessed
    IN IF doAppend
       THEN [afterStatus EXCEPT !.out = Append(@, afterStatus.ref)]
       ELSE afterStatus

RECURSIVE ParseKeys(_, _, _)
ParseKeys(item, order, st) ==
    IF order = << >> THEN st
    ELSE ParseKeys(item, Tail(order), ParseKey(item, Head(order), st))

ParseItem(item, order) ==
    ParseKeys(item, SelectSeq(order, LAMBDA k : k \in item.keys),
              [ref |-> ZeroMetaDataRef, metadataProcessed |-> FALSE,
               statusProcessed |-> FALSE, out |-> << >>]).out

\* parseMetaData, lines 679-773: content is the "items" array; ord gives, for
\* each item name, the order in which that item's keys are ranged over.
RECURSIVE parseMetaData(_, _)
parseMetaData(content, ord) ==
    IF content = << >> THEN << >>
    ELSE ParseItem(Head(content), ord[Head(content).name])
            \o parseMetaData(Tail(content), ord)

\* filterChildren without the scan for a member of the same name.
RECURSIVE filterChildren_keepDuplicates(_, _)
filterChildren_keepDuplicates(metaDataSlice, parentResourceName) ==
    IF metaDataSlice = << >> THEN << >>
    ELSE (IF Head(metaDataSlice).OwnerReferenceName = parentResourceName
          THEN << Head(metaDataSlice) >> ELSE << >>)
            \o filterChildren_keepDuplicates(Tail(metaDataSlice), parentResourceName)

\* filterChildren, lines 775-792.
RECURSIVE filterChildren(_, _)
filterChildren(metaDataSlice, parentResourceName) ==
    IF metaDataSlice = << >> THEN << >>
    ELSE LET n == Len(metaDataSlice)
             front == filterChildren(SubSeq(metaDataSlice, 1, n - 1), parentResourceName)
             metaDataRef == metaDataSlice[n]
             present == \E i \in DOMAIN front :
                            front[i].MetaDataName = metaDataRef.MetaDataName
         IN IF metaDataRef.OwnerReferenceName = parentResourceName /\ ~present
            THEN Append(front, metaDataRef)
            ELSE front


\* ---------------------------------------------------------------- state

VARIABLES
    KindPluralMap,      \* kind -> plural                       (line 32)
    kindVersionMap,     \* kind -> listing endpoint             (line 33)
    compositionMap,     \* kind -> ordered child kinds          (line 34)
    cluster,            \* the cluster API: plural -> "items" array of its listing
    clusterProvenance,  \* TotalClusterProvenance.clusterProvenance
    mux,                \* TotalClusterProvenance.mux: Free or its holder
    rpc,                \* refresh loop: position in BuildCompositionTree
    resourceKindList,   \* refresh loop: kinds still to range over (line 116)
    resourceKind,       \* refresh loop: the kind being processed (line 118)
    topLevelMetaDataOwnerRefList, \* refresh loop: listing of that kind (line 119)
    idx,                \* refresh loop: index of topLevelObject in it (line 121)
    compositionTree,    \* refresh loop: the tree built for topLevelObject (line 125)
    resourceInCluster,  \* refresh loop: names seen in this cycle (line 117)
    presentList,        \* purge: the list it builds (line 501)
    qpc,                \* caller -> position in GetProvenance / PrintProvenance
    qop,                \* caller -> "get" or "print"
    qkind,              \* caller -> resourceKind argument
    qname,              \* caller -> resourceName argument
    qread,              \* caller -> the collection its range read
    qres,               \* caller -> the value returned (the marshalled array)
    envSteps,           \* history: number of cluster changes so far
    lister,             \* the cluster API: plural -> how a listing request ends
    enumerated,         \* history: kind enumerated this cycle -> names listed for it
    built,              \* history: records passed to storeProvenance this cycle
    written             \* history: records passed to storeProvenance so far

schemaVars == <<KindPluralMap, kindVersionMap, compositionMap>>
loopVars == <<rpc, resourceKindList, resourceKind, topLevelMetaDataOwnerRefList,
              idx, compositionTree, resourceInCluster, presentList>>
callVars == <<qpc, qop, qkind, qname, qread, qres>>
histVars == <<enumerated, built, written>>
vars == <<schemaVars, cluster, clusterProvenance, mux, loopVars, callVars,
          histVars, envSteps, lister>>

\* The holder of cp.mux.
Free == <<"free", 0>>
ByRefresh == <<"refresh", 0>>
ByCaller(q) == <<"caller", q>>

\* ------------------------------------------------------------ Tree Builder

\* getResourceListContent, lines 636-676: the "items" of the body the
\* cluster API returns for this endpoint and plural.  When the request ends
\* with an error status the body is a status object without "items", for
\* which parseMetaData (line 690) ranges over nothing, as for no items.  When
\* the request itself fails the function does not return (ListPanics).
getResourceListContent(resourceApiVersion, resourcePlural) ==
    IF MapGet(lister, resourcePlural, "ok") = "ok"
    THEN MapGet(cluster, resourcePlural, << >>)
    ELSE << >>

\* getResourceListContent, lines 665-670: client.Do fails, the error is
\* logged, resp is nil and `defer resp.Body.Close()` dereferences it.
ListPanics(resourcePlural) == MapGet(lister, resourcePlural, "ok") = "refused"

\* getResourceNames, lines 327-333.
getResourceNames(kind, ord) ==
    parseMetaData(getResourceListContent(MapGet(kindVersionMap, kind, ""),
                                         MapGet(KindPluralMap, kind, EmptyString)),
                  ord)

\* buildProvenance, lines 602-634.  The tree is the slice the pointer
\* compositionTree names; the operator returns it after the appends.
RECURSIVE buildProvenance(_, _, _, _, _)
RECURSIVE BuildChildKinds(_, _, _, _, _)
RECURSIVE BuildChildren(_, _, _, _, _)

\* buildProvenance without the increment of line 606.
buildProvenance_sameLevel(parentResourceKind, parentResourceName, level, tree, ord) ==
    IF parentResourceKind \in DOMAIN compositionMap
    THEN BuildChildKinds(compositionMap[parentResourceKind], parentResourceName,
                         level, tree, ord)
    ELSE tree

buildProvenance(parentResourceKind, parentResourceName, level, tree, ord) ==
    IF parentResourceKind \in DOMAIN compositionMap
    THEN BuildChildKinds(compositionMap[parentResourceKind], parentResourceName,
                         level + 1, tree, ord)
    ELSE tree

\* lines 608-630: the range over childResourceKindList.
BuildChildKinds(childResourceKindList, parentResourceName, level, tree, ord) ==
    IF childResourceKindList = << >> THEN tree
    ELSE LET childResourceKind == Head(childResourceKindList)
             childrenList ==
                 filterChildren(getResourceNames(childResourceKind, ord),
                                parentResourceName)
             compTreeNode == [Level |-> level, ChildKind |-> childResourceKind,
                              Children |-> childrenList]
             tree1 == BuildChildren(childrenList, childResourceKind, level,
                                    Append(tree, compTreeNode), ord)
         IN BuildChildKinds(Tail(childResourceKindList), parentResourceName,
                            level, tree1, ord)

\* lines 625-629: the range over childrenList.
BuildChildren(childrenList, childResourceKind, level, tree, ord) ==
    IF childrenList = << >> THEN tree
    ELSE BuildChildren(Tail(childrenList), childResourceKind, level,
             buildProvenance(childResourceKind, Head(childrenList).MetaDataName,
                             level, tree, ord),
             ord)

\* ------------------------------------------------------- Provenance Store

\* storeProvenance with the record taken out of its place and put at the end.
storeProvenance_moveToEnd(cp, topLevelObject, kind, name, tree) ==
    Append(SelectSeq(cp, LAMBDA prov : ~(prov.Kind = kind /\ prov.Name = name)),
           [Kind |-> kind, Name |-> name, Status |-> topLevelObject.Status,
            CompositionTree |-> tree])

\* storeProvenance without the scan for an existing record: every call appends.
storeProvenance_alwaysAppend(cp, topLevelObject, kind, name, tree) ==
    Append(cp, [Kind |-> kind, Name |-> name, Status |-> topLevelObject.Status,
                CompositionTree |-> tree])

\* storeProvenance, lines 524-547 (the part between Lock and Unlock): the
\* collection after the call.
storeProvenance(cp, topLevelObject, kind, name, tree) ==
    LET provenance == [Kind |-> kind, Name |-> name,
                       Status |-> topLevelObject.Status, CompositionTree |-> tree]
        match(prov) == prov.Kind = provenance.Kind /\ prov.Name = provenance.Name
        present == \E i \in DOMAIN cp : match(cp[i])
        replaced == [i \in DOMAIN cp |->
                        IF match(cp[i])
                        THEN [cp[i] EXCEPT !.CompositionTree = tree,
                                           !.Status = topLevelObject.Status]
                        ELSE cp[i]]
    IN IF present THEN replaced ELSE Append(replaced, provenance)

\* storeProvenance, lines 533-540, part of the way through the copy of line
\* 540: the matching records hold the new status, not yet the new tree.
storeStatus(cp, topLevelObject, kind, name) ==
    [i \in DOMAIN cp |->
        IF cp[i].Kind = kind /\ cp[i].Name = name
        THEN [cp[i] EXCEPT !.Status = topLevelObject.Status]
        ELSE cp[i]]

\* purgeCompositionOfDeletedItems, lines 501-512: presentList after the two
\* nested ranges.
RECURSIVE PurgeMatches(_, _)
PurgeMatches(prov, topLevelList) ==
    IF topLevelList = << >> THEN << >>
    ELSE (IF Head(topLevelList).MetaDataName = prov.Name THEN <<prov>> ELSE << >>)
            \o PurgeMatches(prov, Tail(topLevelList))

\* The purge with the record's name compared to the owner reference's name.
RECURSIVE purgeCompositionOfDeletedItems_byOwnerName(_, _)
purgeCompositionOfDeletedItems_byOwnerName(cp, topLevelList) ==
    IF cp = << >> THEN << >>
    ELSE (IF \E i \in DOMAIN topLevelList :
                        topLevelList[i].OwnerReferenceName = Head(cp).Name
                THEN << Head(cp) >> ELSE << >>)
            \o purgeCompositionOfDeletedItems_byOwnerName(Tail(cp), topLevelList)

RECURSIVE purgeCompositionOfDeletedItems(_, _)
purgeCompositionOfDeletedItems(cp, topLevelList) ==
    IF cp = << >> THEN << >>
    ELSE PurgeMatches(Head(cp), topLevelList)
            \o purgeCompositionOfDeletedItems(Tail(cp), topLevelList)

\* The collection of seen names without the check for a name already there.
CollectSeen_noDedupe(seen, list) == seen \o list

\* BuildCompositionTree, lines 130-140: resourceInCluster after the range over
\* one kind's listing.
RECURSIVE CollectSeen(_, _)
CollectSeen(seen, list) ==
    IF list = << >> THEN seen
    ELSE LET resource == Head(list)
             present == \E i \in DOMAIN seen :
                            seen[i].MetaDataName = resource.MetaDataName
         IN CollectSeen(IF present THEN seen ELSE Append(seen, resource), Tail(list))


\* ------------------------------------------------------------ Query Engine

\* processed, lines 358-368.
processed(processedList, nodeToCheck) ==
    \E i \in DOMAIN processedList :
        /\ processedList[i].Level = nodeToCheck.Level
        /\ processedList[i].ChildKind = nodeToCheck.ChildKind

\* getComposition, lines 370-409.  processedList is shared by pointer through
\* the whole recursion, so the operator returns it next to the Composition:
\* [comp, processedList].
RECURSIVE getComposition(_, _, _, _, _, _)
RECURSIVE GcNodes(_, _, _, _, _)
RECURSIVE GcMembers(_, _, _, _, _)

getComposition(kind, name, status, level, tree, processedList) ==
    LET r == GcNodes(tree, 1, tree, processedList, << >>)
    IN [comp |-> [Level |-> level, Kind |-> kind, Name |-> name,
                  Status |-> status, Children |-> r.children],
        processedList |-> r.processedList]

\* lines 384-407: the range over *compositionTree.  `ranged` is the slice the
\* range statement evaluated once; `cur` is what the variable compositionTree
\* points to now (line 405 re-points it, the range is not affected).
GcNodes(ranged, i, cur, processedList, children) ==
    IF i > Len(ranged)
    THEN [children |-> children, processedList |-> processedList]
    ELSE IF processed(processedList, ranged[i])
         THEN GcNodes(ranged, i + 1, cur, processedList, children)
         ELSE LET r == GcMembers(ranged[i], ranged[i].Children, cur,
                                 processedList, children)
              IN GcNodes(ranged, i + 1, r.cur, r.processedList, r.children)

\* lines 392-406: the range over the node's members.
GcMembers(node, members, cur, processedList, children) ==
    IF members = << >>
    THEN [children |-> children, processedList |-> processedList, cur |-> cur]
    ELSE LET metaDataNode == Head(members)
             trimmedTree ==
                 SelectSeq(cur, LAMBDA n : n.Level # node.Level
                                           /\ n.ChildKind # node.ChildKind)
             child == getComposition(node.ChildKind, metaDataNode.MetaDataName,
                                     metaDataNode.Status, node.Level, trimmedTree,
                                     Append(processedList, node))
         IN GcMembers(node, Tail(members), << >>, child.processedList,
                      Append(children, child.comp))

\* GetProvenance, lines 469-474: the keys the range over KindPluralMap can
\* stop at (the map order decides which when several plurals agree); the
\* variable stays "" when there is none.
ResolvedKinds(resourceKindArg) ==
    LET resourceKindPlural == ToLower(MapGet(KindPluralMap, resourceKindArg, EmptyString))
        hits == { key \in DOMAIN KindPluralMap :
                    ToLower(KindPluralMap[key]) = ToLower(resourceKindPlural) }
    IN IF hits = {} THEN {EmptyString} ELSE { ToLower(key) : key \in hits }

\* GetProvenance with one processedList shared by all the records of a call.
RECURSIVE GetProvenanceShared(_, _, _, _, _, _)
GetProvenanceShared(cp, i, resolved, resourceNameArg, compositions, processedList) ==
    IF i > Len(cp) THEN compositions
    ELSE LET kind == ToLower(cp[i].Kind)
             name == ToLower(cp[i].Name)
             r == getComposition(kind, name, cp[i].Status, 1,
                                 cp[i].CompositionTree, processedList)
             hit == IF ToLower(resourceNameArg) = Star
                    THEN resolved[i] = kind
                    ELSE resolved[i] = kind /\ ToLower(resourceNameArg) = name
         IN IF hit
            THEN GetProvenanceShared(cp, i + 1, resolved, resourceNameArg,
                                     Append(compositions, r.comp), r.processedList)
            ELSE GetProvenanceShared(cp, i + 1, resolved, resourceNameArg,
                                     compositions, processedList)

GetProvenance_sharedProcessed(cp, resolved, resourceNameArg) ==
    GetProvenanceShared(cp, 1, resolved, resourceNameArg, << >>, << >>)

\* The range of GetProvenance with the name comparison of line 486 left out.
RECURSIVE GetProvenanceFrom_anyName(_, _, _, _, _)
GetProvenanceFrom_anyName(cp, i, resolved, resourceNameArg, compositions) ==
    IF i > Len(cp) THEN compositions
    ELSE LET kind == ToLower(cp[i].Kind)
             composition == getComposition(kind, ToLower(cp[i].Name), cp[i].Status, 1,
                                           cp[i].CompositionTree, << >>).comp
         IN GetProvenanceFrom_anyName(cp, i + 1, resolved, resourceNameArg,
                IF resolved[i] = kind THEN Append(compositions, composition)
                ELSE compositions)

\* GetProvenance, lines 452-490: the slice `compositions` that is marshalled.
\* resolved[i] is the kind the reverse lookup yields while record i is ranged
\* over.  json.Marshal keeps the structure, so the returned string is
\* represented by the sequence of Composition values ("[]" is << >>).
RECURSIVE GetProvenanceFrom(_, _, _, _, _)
GetProvenanceFrom(cp, i, resolved, resourceNameArg, compositions) ==
    IF i > Len(cp) THEN compositions
    ELSE LET provenanceItem == cp[i]
             kind == ToLower(provenanceItem.Kind)
             name == ToLower(provenanceItem.Name)
             resolvedKind == resolved[i]
             resourceName == ToLower(resourceNameArg)
             composition == getComposition(kind, name, provenanceItem.Status, 1,
                                provenanceItem.CompositionTree, << >>).comp
             hit == IF resourceName = Star
                    THEN resolvedKind = kind
                    ELSE resolvedKind = kind /\ resourceName = name
         IN GetProvenanceFrom(cp, i + 1, resolved, resourceNameArg,
                IF hit THEN Append(compositions, composition) ELSE compositions)

GetProvenance(cp, resolved, resourceNameArg) ==
    GetProvenanceFrom(cp, 1, resolved, resourceNameArg, << >>)

\* PrintProvenance, lines 339-355: the lines written, one per record and one
\* per member of each of its tree nodes.
RECURSIVE PrintNode(_, _)
PrintNode(node, members) ==
    IF members = << >> THEN << >>
    ELSE << <<node.Level, node.ChildKind, Head(members).MetaDataName,
              Head(members).Status>> >> \o PrintNode(node, Tail(members))

RECURSIVE PrintTree(_)
PrintTree(tree) ==
    IF tree = << >> THEN << >>
    ELSE PrintNode(Head(tree), Head(tree).Children) \o PrintTree(Tail(tree))

RECURSIVE PrintProvenance(_)
PrintProvenance(cp) ==
    IF cp = << >> THEN << >>
    ELSE << <<Head(cp).Kind, Head(cp).Name>> >> \o PrintTree(Head(cp).CompositionTree)
            \o PrintProvenance(Tail(cp))


\* ---------------------------------------------------------------- bounds

MaxEnvSteps == 1    \* changes of the cluster's content
NumCallers == 2     \* concurrent callers of GetProvenance / PrintProvenance
MaxReplicas == 2    \* replica counts an instance reports

X == <<"x">>
Y == <<"y">>
Names == {X, Y}
Callers == 1 .. NumCallers

\* The listings of the cluster API are ordered by name.
NameRank(n) == IF n = X THEN 1 ELSE 2

\* Raw items: with a phase only (keys metadata and status), and with equal
\* positive replica counts (keys metadata, spec and status).
PhaseItem(n, o) ==
    [name |-> n, owner |-> o, keys |-> {"metadata", "status"},
     phase |-> "Running", replicas |-> 0, readyReplicas |-> 0,
     availableReplicas |-> 0]
ReadyItem(n, o) ==
    [name |-> n, owner |-> o, keys |-> {"metadata", "spec", "status"},
     phase |-> "", replicas |-> 1, readyReplicas |-> 1, availableReplicas |-> 1]

\* The owner names the instances of a plural carry in the bounded cluster.
Owners(plural) ==
    IF plural = deployments THEN {EmptyString}
    ELSE IF plural = replicasets THEN {EmptyString, X}
    ELSE {Y}

Items(plural) ==
    { PhaseItem(n, o) : n \in Names, o \in Owners(plural) }
        \cup (IF plural = deployments
              THEN { ReadyItem(n, EmptyString) : n \in Names }
              ELSE {})

Plurals == {deployments, replicasets, pods}

\* The orders in which the keys of the items of one listing can be ranged over.
KeyOrders == [Names -> Perms(ItemKeys)]

\* The documents the schema source can hold (readKindCompositionFile): none,
\* or one that declares Pod as init() does.
SourceDocs ==
    { << >>,
      << [Kind |-> POD, Plural |-> pods, Endpoint |-> "api/v1",
          Composition |-> << >>] >> }

\* The cluster at start: empty; a deployment x owning replica set y owning
\* pod x (one name used by instances of two kinds); or two deployments, each
\* owning one replica set.
ChainCluster ==
    (deployments :> << ReadyItem(X, EmptyString) >>)
        @@ (replicasets :> << PhaseItem(Y, X) >>)
        @@ (pods :> << PhaseItem(X, Y) >>)
TwinCluster ==
    (deployments :> << ReadyItem(X, EmptyString), PhaseItem(Y, EmptyString) >>)
        @@ (replicasets :> << PhaseItem(X, Y), PhaseItem(Y, X) >>)
        @@ (pods :> << >>)
InitClusters == { [p \in Plurals |-> << >>], ChainCluster, TwinCluster }

\* --------------------------------------------------------- the cluster API

InsertByName(content, item) ==
    LET before == SelectSeq(content, LAMBDA i : NameRank(i.name) < NameRank(item.name))
        after == SelectSeq(content, LAMBDA i : NameRank(i.name) > NameRank(item.name))
    IN before \o <<item>> \o after

\* An instance is created, or updated in place.
ApplyItem(plural, item) ==
    /\ envSteps < MaxEnvSteps
    /\ rpc = "reload"
    /\ item \notin SeqToSet(cluster[plural])
    /\ cluster' = [cluster EXCEPT ![plural] = InsertByName(@, item)]
    /\ envSteps' = envSteps + 1
    /\ UNCHANGED <<schemaVars, clusterProvenance, mux, loopVars, callVars, histVars,
                   lister>>

\* An instance is deleted.
DeleteItem(plural, n) ==
    /\ envSteps < MaxEnvSteps
    /\ rpc = "reload"
    /\ \E i \in DOMAIN cluster[plural] : cluster[plural][i].name = n
    /\ cluster' = [cluster EXCEPT ![plural] = SelectSeq(@, LAMBDA i : i.name # n)]
    /\ envSteps' = envSteps + 1
    /\ UNCHANGED <<schemaVars, clusterProvenance, mux, loopVars, callVars, histVars,
                   lister>>

\* Two changes between two listings: the deployment x is updated (its status
\* becomes its phase) and its replica set y is deleted.
Rollout ==
    /\ envSteps < MaxEnvSteps
    /\ rpc = "reload"
    /\ ReadyItem(X, EmptyString) \in SeqToSet(cluster[deployments])
    /\ \E i \in DOMAIN cluster[replicasets] : cluster[replicasets][i].name = Y
    /\ cluster' = [cluster EXCEPT
                      ![deployments] = InsertByName(@, PhaseItem(X, EmptyString)),
                      ![replicasets] = SelectSeq(@, LAMBDA i : i.name # Y)]
    /\ envSteps' = envSteps + 1
    /\ UNCHANGED <<schemaVars, clusterProvenance, mux, loopVars, callVars, histVars,
                   lister>>

\* ---------------------------------------------------------- Refresh Loop

\* readKindCompositionFile, lines 174-184 (and 191-198): the three tables
\* after the records of the document are assigned.
RECURSIVE LoadPlural(_, _)
LoadPlural(m, doc) ==
    IF doc = << >> THEN m
    ELSE LoadPlural(MapSet(m, Head(doc).Kind, Head(doc).Plural), Tail(doc))
RECURSIVE LoadVersion(_, _)
LoadVersion(m, doc) ==
    IF doc = << >> THEN m
    ELSE LoadVersion(MapSet(m, Head(doc).Kind, Head(doc).Endpoint), Tail(doc))
RECURSIVE LoadComposition(_, _)
LoadComposition(m, doc) ==
    IF doc = << >> THEN m
    ELSE LoadComposition(MapSet(m, Head(doc).Kind, Head(doc).Composition), Tail(doc))

\* The kinds that are no other kind's child.
getResourceKinds_rootsOnly(m) ==
    Perms({ k \in DOMAIN m : \A p \in DOMAIN m : k \notin SeqToSet(m[p]) })

\* getResourceKinds, lines 319-325: the keys of compositionMap, in any of the
\* orders the map range can produce.
getResourceKinds(m) == Perms(DOMAIN m)

\* lines 115-117: reload the schema, enumerate the kinds, start a cycle.
Reload ==
    /\ rpc = "reload"
    /\ \E doc \in SourceDocs :
         /\ KindPluralMap' = LoadPlural(KindPluralMap, doc)
         /\ kindVersionMap' = LoadVersion(kindVersionMap, doc)
         /\ compositionMap' = LoadComposition(compositionMap, doc)
    /\ resourceKindList' \in getResourceKinds(compositionMap')
    /\ resourceInCluster' = << >>
    /\ rpc' = "kinds"
    /\ UNCHANGED <<cluster, clusterProvenance, mux, resourceKind,
                   topLevelMetaDataOwnerRefList, idx, compositionTree, presentList,
                   callVars, histVars, envSteps, lister>>

\* lines 118-119: the next kind and its listing.
EnumerateKind ==
    /\ rpc = "kinds"
    /\ resourceKindList # << >>
    /\ ~ListPanics(MapGet(KindPluralMap, Head(resourceKindList), EmptyString))
    /\ resourceKind' = Head(resourceKindList)
    /\ resourceKindList' = Tail(resourceKindList)
    /\ topLevelMetaDataOwnerRefList' \in
         { getResourceNames(Head(resourceKindList), ord) : ord \in KeyOrders }
    /\ idx' = 1
    /\ rpc' = "instances"
    /\ enumerated' = MapSet(enumerated, Head(resourceKindList),
            { topLevelMetaDataOwnerRefList'[i].MetaDataName :
                i \in DOMAIN topLevelMetaDataOwnerRefList' })
    /\ UNCHANGED <<schemaVars, cluster, clusterProvenance, mux, compositionTree,
                   resourceInCluster, presentList, callVars, built, written,
                   envSteps, lister>>

\* lines 122-127: the tree of the next top-level object is built.
Build ==
    /\ rpc = "instances"
    /\ idx <= Len(topLevelMetaDataOwnerRefList)
    /\ compositionTree' \in
         { buildProvenance(resourceKind,
                           topLevelMetaDataOwnerRefList[idx].MetaDataName,
                           1, << >>, ord) : ord \in KeyOrders }
    /\ \A i \in DOMAIN compositionTree' :
            ~ListPanics(MapGet(KindPluralMap, compositionTree'[i].ChildKind,
                               EmptyString))
    /\ rpc' = "store"
    /\ UNCHANGED <<schemaVars, cluster, clusterProvenance, mux, resourceKindList,
                   resourceKind, topLevelMetaDataOwnerRefList, idx,
                   resourceInCluster, presentList, callVars, histVars,
                   envSteps, lister>>

\* storeProvenance entered without taking the lock.
StoreLock_noLock ==
    /\ rpc = "store"
    /\ rpc' = "storing"
    /\ UNCHANGED <<schemaVars, cluster, clusterProvenance, mux, resourceKindList,
                   resourceKind, topLevelMetaDataOwnerRefList, idx, compositionTree,
                   resourceInCluster, presentList, callVars, histVars,
                   envSteps, lister>>

\* storeProvenance, line 522: cp.mux.Lock().
StoreLock ==
    /\ rpc = "store"
    /\ mux = Free
    /\ mux' = ByRefresh
    /\ rpc' = "storing"
    /\ UNCHANGED <<schemaVars, cluster, clusterProvenance, resourceKindList,
                   resourceKind, topLevelMetaDataOwnerRefList, idx, compositionTree,
                   resourceInCluster, presentList, callVars, histVars,
                   envSteps, lister>>

\* storeProvenance, lines 533-543: the range has reached the assignment of
\* line 540.  The struct is copied word by word; Status lies before
\* CompositionTree, so there is a moment when a replaced record holds the new
\* status and still the old tree.  (An appended record is invisible until the
\* slice header is written at line 545.)
StoreCopy ==
    /\ rpc = "storing"
    /\ clusterProvenance' =
           storeStatus(clusterProvenance, topLevelMetaDataOwnerRefList[idx],
                       resourceKind, topLevelMetaDataOwnerRefList[idx].MetaDataName)
    /\ rpc' = "copying"
    /\ UNCHANGED <<schemaVars, cluster, mux, resourceKindList, resourceKind,
                   topLevelMetaDataOwnerRefList, idx, compositionTree,
                   resourceInCluster, presentList, callVars, histVars,
                   envSteps, lister>>

\* storeProvenance returning without the deferred Unlock.
StoreUnlock_keepLock ==
    /\ rpc = "copying"
    /\ LET topLevelObject == topLevelMetaDataOwnerRefList[idx]
           rec == [Kind |-> resourceKind, Name |-> topLevelObject.MetaDataName,
                   Status |-> topLevelObject.Status,
                   CompositionTree |-> compositionTree]
       IN /\ clusterProvenance' =
                 storeProvenance(clusterProvenance, topLevelObject, resourceKind,
                                 topLevelObject.MetaDataName, compositionTree)
          /\ built' = built \cup {rec}
          /\ written' = written \cup {rec}
    /\ mux' = mux
    /\ idx' = idx + 1
    /\ compositionTree' = << >>
    /\ rpc' = "instances"
    /\ UNCHANGED <<schemaVars, cluster, resourceKindList, resourceKind,
                   topLevelMetaDataOwnerRefList, resourceInCluster, presentList,
                   callVars, enumerated, envSteps, lister>>

\* storeProvenance, lines 540-550: the rest of the body and the deferred
\* Unlock.
StoreUnlock ==
    /\ rpc = "copying"
    /\ LET topLevelObject == topLevelMetaDataOwnerRefList[idx]
           rec == [Kind |-> resourceKind, Name |-> topLevelObject.MetaDataName,
                   Status |-> topLevelObject.Status,
                   CompositionTree |-> compositionTree]
       IN /\ clusterProvenance' =
                 storeProvenance(clusterProvenance, topLevelObject, resourceKind,
                                 topLevelObject.MetaDataName, compositionTree)
          /\ built' = built \cup {rec}
          /\ written' = written \cup {rec}
    /\ mux' = Free
    /\ idx' = idx + 1
    /\ compositionTree' = << >>
    /\ rpc' = "instances"
    /\ UNCHANGED <<schemaVars, cluster, resourceKindList, resourceKind,
                   topLevelMetaDataOwnerRefList, resourceInCluster, presentList,
                   callVars, enumerated, envSteps, lister>>

\* lines 130-140: the names of this kind's listing are collected; the
\* iteration's variables go out of scope.
CollectKind ==
    /\ rpc = "instances"
    /\ idx > Len(topLevelMetaDataOwnerRefList)
    /\ resourceInCluster' = CollectSeen(resourceInCluster, topLevelMetaDataOwnerRefList)
    /\ resourceKind' = EmptyString
    /\ topLevelMetaDataOwnerRefList' = << >>
    /\ idx' = 1
    /\ rpc' = "kinds"
    /\ UNCHANGED <<schemaVars, cluster, clusterProvenance, mux, resourceKindList,
                   compositionTree, presentList, callVars, histVars,
                   envSteps, lister>>

\* The purge entered inside the range over the kinds, after any of them.
PurgeBegin_afterAnyKind ==
    /\ rpc = "kinds"
    /\ presentList' = purgeCompositionOfDeletedItems(clusterProvenance, resourceInCluster)
    /\ rpc' = "purging"
    /\ UNCHANGED <<schemaVars, cluster, clusterProvenance, mux, resourceKindList,
                   resourceKind, topLevelMetaDataOwnerRefList, idx, compositionTree,
                   resourceInCluster, callVars, histVars, envSteps, lister>>

\* purgeCompositionOfDeletedItems, lines 501-512, entered without the lock:
\* the collection is read and presentList built.
PurgeBegin ==
    /\ rpc = "kinds"
    /\ resourceKindList = << >>
    /\ presentList' = purgeCompositionOfDeletedItems(clusterProvenance, resourceInCluster)
    /\ rpc' = "purging"
    /\ UNCHANGED <<schemaVars, cluster, clusterProvenance, mux, resourceKindList,
                   resourceKind, topLevelMetaDataOwnerRefList, idx, compositionTree,
                   resourceInCluster, callVars, histVars, envSteps, lister>>

\* purgeCompositionOfDeletedItems, line 514: the collection is replaced.
PurgeAssign ==
    /\ rpc = "purging"
    /\ clusterProvenance' = presentList
    /\ presentList' = << >>
    /\ rpc' = "sleep"
    /\ UNCHANGED <<schemaVars, cluster, mux, resourceKindList, resourceKind,
                   topLevelMetaDataOwnerRefList, idx, compositionTree,
                   resourceInCluster, callVars, histVars, envSteps, lister>>

\* line 145: time.Sleep, then the next iteration of the for loop; the
\* histories of the cycle are cleared.
Sleep ==
    /\ rpc = "sleep"
    /\ rpc' = "reload"
    /\ resourceInCluster' = << >>
    /\ enumerated' = << >>
    /\ built' = {}
    /\ UNCHANGED <<schemaVars, cluster, clusterProvenance, mux, resourceKindList,
                   resourceKind, topLevelMetaDataOwnerRefList, idx, compositionTree,
                   presentList, callVars, written, envSteps, lister>>


\* ------------------------------------------------------------- callers

\* The arguments callers pass: kinds as keyed in the tables and in lower
\* case, names as stored and in upper case, and the wildcard.
QueryKinds == {DEPLOYMENT, ToLower(DEPLOYMENT), REPLICA_SET}
QueryNames == {X, <<"X">>, Y, Star}

\* What a range over cp.clusterProvenance can read.  The caller holds the
\* lock, but line 514 writes the slice header without it: while that write is
\* pending the three-word header can be read as it was, as it will be, or
\* torn (the old array with the new length).
ReadOutcomes ==
    IF rpc = "purging"
    THEN {clusterProvenance, presentList,
          SubSeq(clusterProvenance, 1, Len(presentList))}
    ELSE {clusterProvenance}

\* The other torn header, the new array with the old length, ranges past the
\* end of the new array.
ReadOutOfBounds == rpc = "purging" /\ Len(presentList) < Len(clusterProvenance)

\* GetProvenance, line 448 / PrintProvenance, line 336: cp.mux.Lock().
CallLock(q, op, kindArg, nameArg) ==
    /\ qpc[q] = "idle"
    /\ mux = Free
    /\ mux' = ByCaller(q)
    /\ qpc' = [qpc EXCEPT ![q] = "reading"]
    /\ qop' = [qop EXCEPT ![q] = op]
    /\ qkind' = [qkind EXCEPT ![q] = kindArg]
    /\ qname' = [qname EXCEPT ![q] = nameArg]
    /\ UNCHANGED <<schemaVars, cluster, clusterProvenance, loopVars, qread, qres,
                   histVars, envSteps, lister>>

\* GetProvenance with line 405 writing through the pointer instead of
\* re-pointing it: the stored tree of every record that matched is emptied.
GetProvenanceReturn_consumesTree(q) ==
    /\ qpc[q] = "reading"
    /\ qop[q] = "get"
    /\ \E cp \in ReadOutcomes :
         \E resolved \in [DOMAIN cp -> ResolvedKinds(qkind[q])] :
            /\ qread' = [qread EXCEPT ![q] = cp]
            /\ qres' = [qres EXCEPT ![q] = GetProvenance(cp, resolved, qname[q])]
    /\ clusterProvenance' =
           [i \in DOMAIN clusterProvenance |->
               IF ToLower(clusterProvenance[i].Kind) \in ResolvedKinds(qkind[q])
               THEN [clusterProvenance[i] EXCEPT !.CompositionTree = << >>]
               ELSE clusterProvenance[i]]
    /\ mux' = Free
    /\ qpc' = [qpc EXCEPT ![q] = "done"]
    /\ UNCHANGED <<schemaVars, cluster, loopVars, qop, qkind,
                   qname, histVars, envSteps, lister>>

\* GetProvenance, lines 449-497: the range, the marshalling, the deferred
\* Unlock.
GetProvenanceReturn(q) ==
    /\ qpc[q] = "reading"
    /\ qop[q] = "get"
    /\ \E cp \in ReadOutcomes :
         \E resolved \in [DOMAIN cp -> ResolvedKinds(qkind[q])] :
            /\ qread' = [qread EXCEPT ![q] = cp]
            /\ qres' = [qres EXCEPT ![q] = GetProvenance(cp, resolved, qname[q])]
    /\ mux' = Free
    /\ qpc' = [qpc EXCEPT ![q] = "done"]
    /\ UNCHANGED <<schemaVars, cluster, clusterProvenance, loopVars, qop, qkind,
                   qname, histVars, envSteps, lister>>

\* PrintProvenance, lines 337-356.
PrintProvenanceReturn(q) ==
    /\ qpc[q] = "reading"
    /\ qop[q] = "print"
    /\ \E cp \in ReadOutcomes :
            /\ qread' = [qread EXCEPT ![q] = cp]
            /\ qres' = [qres EXCEPT ![q] = PrintProvenance(cp)]
    /\ mux' = Free
    /\ qpc' = [qpc EXCEPT ![q] = "done"]
    /\ UNCHANGED <<schemaVars, cluster, clusterProvenance, loopVars, qop, qkind,
                   qname, histVars, envSteps, lister>>

\* The range read past the end of the array: the call ends without a result
\* the model can name (the deferred Unlock still runs).
ReadFault(q) ==
    /\ qpc[q] = "reading"
    /\ ReadOutOfBounds
    /\ mux' = Free
    /\ qpc' = [qpc EXCEPT ![q] = "fault"]
    /\ UNCHANGED <<schemaVars, cluster, clusterProvenance, loopVars, qop, qkind,
                   qname, qread, qres, histVars, envSteps, lister>>

\* The caller is done with the result and may call again.
Forget(q) ==
    /\ qpc[q] \in {"done", "fault"}
    /\ qpc' = [qpc EXCEPT ![q] = "idle"]
    /\ qop' = [qop EXCEPT ![q] = "none"]
    /\ qkind' = [qkind EXCEPT ![q] = EmptyString]
    /\ qname' = [qname EXCEPT ![q] = EmptyString]
    /\ qread' = [qread EXCEPT ![q] = << >>]
    /\ qres' = [qres EXCEPT ![q] = << >>]
    /\ UNCHANGED <<schemaVars, cluster, clusterProvenance, mux, loopVars, histVars,
                   envSteps, lister>>

\* ----------------------------------------------------------- specification

\* The state after init() (lines 53-111), with an empty store and cluster.
Init ==
    /\ KindPluralMap = InitKindPluralMap
    /\ kindVersionMap = InitKindVersionMap
    /\ compositionMap = InitCompositionMap
    /\ cluster \in InitClusters
    /\ clusterProvenance = << >>
    /\ mux = Free
    /\ rpc = "reload"
    /\ resourceKindList = << >>
    /\ resourceKind = EmptyString
    /\ topLevelMetaDataOwnerRefList = << >>
    /\ idx = 1
    /\ compositionTree = << >>
    /\ resourceInCluster = << >>
    /\ presentList = << >>
    /\ qpc = [q \in Callers |-> "idle"]
    /\ qop = [q \in Callers |-> "none"]
    /\ qkind = [q \in Callers |-> EmptyString]
    /\ qname = [q \in Callers |-> EmptyString]
    /\ qread = [q \in Callers |-> << >>]
    /\ qres = [q \in Callers |-> << >>]
    /\ envSteps = 0
    /\ lister = [p \in Plurals |-> "ok"]
    /\ enumerated = << >>
    /\ built = {}
    /\ written = {}

\* A caller that holds a result hands it over before anything else happens
\* (Forget is local to the caller and commutes with every other step).
NoResultHeld == \A q \in Callers : qpc[q] \notin {"done", "fault"}

\* Nobody is inside a call.
Quiet == \A q \in Callers : qpc[q] = "idle"

\* One caller, whose calls run to completion between two cycles.
OneCaller == { CHOOSE q \in Callers : TRUE }

\* The refresh loop, a changing cluster, and queries between the cycles.
Next ==
    \/ Quiet /\ Reload
    \/ Quiet /\ EnumerateKind
    \/ Quiet /\ Build
    \/ Quiet /\ StoreLock
    \/ Quiet /\ StoreCopy
    \/ Quiet /\ StoreUnlock
    \/ Quiet /\ CollectKind
    \/ Quiet /\ PurgeBegin
    \/ Quiet /\ PurgeAssign
    \/ Quiet /\ Sleep
    \/ \E p \in Plurals : \E item \in Items(p) : ApplyItem(p, item)
    \/ \E p \in Plurals, n \in Names : DeleteItem(p, n)
    \/ \E q \in OneCaller, k \in QueryKinds, n \in QueryNames :
            rpc = "reload" /\ CallLock(q, "get", k, n)
    \/ \E q \in OneCaller :
            rpc = "reload" /\ CallLock(q, "print", EmptyString, EmptyString)
    \/ \E q \in OneCaller : GetProvenanceReturn(q)
    \/ \E q \in OneCaller : PrintProvenanceReturn(q)
    \/ \E q \in OneCaller : Forget(q)

Spec == Init /\ [][Next]_vars

\* Callers running concurrently with the refresh loop and with each other,
\* over a cluster that starts as the chain and then changes the status of the
\* deployment, loses the replica set, or both.
InitCalls == Init /\ cluster = ChainCluster

NextCalls ==
    \/ NoResultHeld /\ Reload
    \/ NoResultHeld /\ EnumerateKind
    \/ NoResultHeld /\ Build
    \/ NoResultHeld /\ StoreLock
    \/ NoResultHeld /\ StoreCopy
    \/ NoResultHeld /\ StoreUnlock
    \/ NoResultHeld /\ CollectKind
    \/ NoResultHeld /\ PurgeBegin
    \/ NoResultHeld /\ PurgeAssign
    \/ NoResultHeld /\ Sleep
    \/ NoResultHeld /\ ApplyItem(deployments, PhaseItem(X, EmptyString))
    \/ NoResultHeld /\ DeleteItem(replicasets, Y)
    \/ NoResultHeld /\ Rollout
    \/ \E q \in Callers : NoResultHeld /\ CallLock(q, "get", DEPLOYMENT, Star)
    \/ \E q \in Callers : NoResultHeld /\ CallLock(q, "print", EmptyString, EmptyString)
    \/ \E q \in Callers : NoResultHeld /\ GetProvenanceReturn(q)
    \/ \E q \in Callers : NoResultHeld /\ PrintProvenanceReturn(q)
    \/ \E q \in Callers : NoResultHeld /\ ReadFault(q)
    \/ \E q \in Callers : Forget(q)

SpecCalls == InitCalls /\ [][NextCalls]_vars

\* ---------------------------------------------------------------- failures

\* A listing endpoint starts to answer with an error status, to refuse the
\* connection, or recovers.
ListerChange(plural, outcome) ==
    /\ envSteps < MaxEnvSteps
    /\ rpc = "reload"
    /\ lister[plural] # outcome
    /\ lister' = [lister EXCEPT ![plural] = outcome]
    /\ envSteps' = envSteps + 1
    /\ UNCHANGED <<schemaVars, cluster, clusterProvenance, mux, loopVars, callVars,
                   histVars>>

\* lines 119 and 327-333: getResourceNames lists a kind whose endpoint
\* refuses the connection; the panic of line 672 ends the process.
EnumeratePanic ==
    /\ rpc = "kinds"
    /\ resourceKindList # << >>
    /\ ListPanics(MapGet(KindPluralMap, Head(resourceKindList), EmptyString))
    /\ rpc' = "panic_enumerate"
    /\ UNCHANGED <<schemaVars, cluster, clusterProvenance, mux, resourceKindList,
                   resourceKind, topLevelMetaDataOwnerRefList, idx, compositionTree,
                   resourceInCluster, presentList, callVars, histVars,
                   envSteps, lister>>

\* lines 126 and 612: buildProvenance lists a child kind whose endpoint
\* refuses the connection.  Every listing of a build appends one slice, so
\* the kinds listed are the ChildKinds of the tree the build would return.
BuildPanic ==
    /\ rpc = "instances"
    /\ idx <= Len(topLevelMetaDataOwnerRefList)
    /\ \E ord \in KeyOrders :
         LET tree == buildProvenance(resourceKind,
                                     topLevelMetaDataOwnerRefList[idx].MetaDataName,
                                     1, << >>, ord)
         IN \E i \in DOMAIN tree :
                ListPanics(MapGet(KindPluralMap, tree[i].ChildKind, EmptyString))
    /\ rpc' = "panic_build"
    /\ UNCHANGED <<schemaVars, cluster, clusterProvenance, mux, resourceKindList,
                   resourceKind, topLevelMetaDataOwnerRefList, idx, compositionTree,
                   resourceInCluster, presentList, callVars, histVars,
                   envSteps, lister>>

\* readKindCompositionFile, lines 166-172: the file cannot be read; the error
\* is printed, yaml.Unmarshal gets no bytes and compositionsList stays empty.
ReloadUnreadable ==
    /\ rpc = "reload"
    /\ resourceKindList' \in getResourceKinds(compositionMap)
    /\ resourceInCluster' = << >>
    /\ rpc' = "kinds"
    /\ UNCHANGED <<schemaVars, cluster, clusterProvenance, mux, resourceKind,
                   topLevelMetaDataOwnerRefList, idx, compositionTree, presentList,
                   callVars, histVars, envSteps, lister>>

\* The records of the registry (queryETCD): the details of a custom resource
\* definition that getCRDDetails can unmarshal, or a value it cannot (among
\* them the error text queryETCD returns at line 297).
ReplicaSetRecord ==
    [parses |-> TRUE, Kind |-> REPLICA_SET, Plural |-> replicasets,
     Endpoint |-> "apis/extensions/v1beta1", Composition |-> << >>]
UnparsableRecord ==
    [parses |-> FALSE, Kind |-> EmptyString, Plural |-> EmptyString,
     Endpoint |-> "", Composition |-> << >>]
RegistryContents ==
    { << >>, <<ReplicaSetRecord>>, <<UnparsableRecord>>,
      <<ReplicaSetRecord, UnparsableRecord>> }

\* readKindCompositionFile, lines 186-199, without KIND_COMPOSITION_FILE: the
\* records of the registry are assigned one by one.  For a record that does
\* not unmarshal, crdDetailsMap stays empty and the type assertion of line
\* 239 on the nil value panics, after the records before it were assigned.
ReloadRegistry(records) ==
    LET bad == { i \in DOMAIN records : ~records[i].parses }
        first == IF bad = {} THEN Len(records) + 1
                 ELSE CHOOSE i \in bad : \A j \in bad : i <= j
        assigned == SubSeq(records, 1, first - 1)
    IN /\ rpc = "reload"
       /\ KindPluralMap' = LoadPlural(KindPluralMap, assigned)
       /\ kindVersionMap' = LoadVersion(kindVersionMap, assigned)
       /\ compositionMap' = LoadComposition(compositionMap, assigned)
       /\ IF bad = {}
          THEN /\ resourceKindList' \in getResourceKinds(compositionMap')
               /\ rpc' = "kinds"
          ELSE /\ resourceKindList' = resourceKindList
               /\ rpc' = "panic_load"
       /\ resourceInCluster' = << >>
       /\ UNCHANGED <<cluster, clusterProvenance, mux, resourceKind,
                      topLevelMetaDataOwnerRefList, idx, compositionTree,
                      presentList, callVars, histVars, envSteps, lister>>

\* The refresh loop over the chain cluster, with a schema source and listing
\* endpoints that can fail.
InitFaults == Init /\ cluster = ChainCluster

NextFaults ==
    \/ Reload
    \/ ReloadUnreadable
    \/ \E records \in RegistryContents : ReloadRegistry(records)
    \/ EnumerateKind
    \/ EnumeratePanic
    \/ Build
    \/ BuildPanic
    \/ StoreLock
    \/ StoreCopy
    \/ StoreUnlock
    \/ CollectKind
    \/ PurgeBegin
    \/ PurgeAssign
    \/ Sleep
    \/ \E p \in Plurals, outcome \in {"ok", "status", "refused"} :
            ListerChange(p, outcome)

SpecFaults == InitFaults /\ [][NextFaults]_vars

\* -------------------------------------------------- schemas and ownership

\* A composition file that declares ReplicaSet at two depths: as a child of
\* Deployment and as a child of Pod (itself a child of Deployment).
DiamondDocs ==
    << [Kind |-> DEPLOYMENT, Plural |-> deployments, Endpoint |-> "apis/apps/v1",
        Composition |-> <<REPLICA_SET, POD>>],
       [Kind |-> POD, Plural |-> pods, Endpoint |-> "api/v1",
        Composition |-> <<REPLICA_SET>>],
       [Kind |-> REPLICA_SET, Plural |-> replicasets,
        Endpoint |-> "apis/extensions/v1beta1", Composition |-> << >>] >>

\* Deployment x alone.
BareCluster ==
    (deployments :> << ReadyItem(X, EmptyString) >>)
        @@ (replicasets :> << >>) @@ (pods :> << >>)

\* Deployment x owning the replica sets x and y, each owning one pod.
SiblingCluster ==
    (deployments :> << ReadyItem(X, EmptyString) >>)
        @@ (replicasets :> << ReadyItem(X, X), PhaseItem(Y, X) >>)
        @@ (pods :> << PhaseItem(X, X), PhaseItem(Y, Y) >>)

\* Deployment x owning replica set x and pod y; pod y owning replica set y.
DiamondCluster ==
    (deployments :> << ReadyItem(X, EmptyString) >>)
        @@ (replicasets :> << PhaseItem(X, X), PhaseItem(Y, Y) >>)
        @@ (pods :> << PhaseItem(Y, X) >>)

\* The composition files and the clusters the loop starts with.
TreeDocs == { << >>, DiamondDocs }
TreeClusters == { BareCluster, ChainCluster, SiblingCluster, DiamondCluster }

\* Arguments of the queries: kinds of the tables and one that is in no
\* table, names of instances and one that no instance has.
JOB == <<"J", "o", "b">>
Z == <<"z">>
TreeQueryKinds == {DEPLOYMENT, REPLICA_SET, POD, JOB}
TreeQueryNames == {X, Y, Z, Star}

\* The locals of the loop, the callers and the histories at process start.
AtStart ==
    /\ clusterProvenance = << >>
    /\ mux = Free
    /\ rpc = "reload"
    /\ resourceKindList = << >>
    /\ resourceKind = EmptyString
    /\ topLevelMetaDataOwnerRefList = << >>
    /\ idx = 1
    /\ compositionTree = << >>
    /\ resourceInCluster = << >>
    /\ presentList = << >>
    /\ qpc = [q \in Callers |-> "idle"]
    /\ qop = [q \in Callers |-> "none"]
    /\ qkind = [q \in Callers |-> EmptyString]
    /\ qname = [q \in Callers |-> EmptyString]
    /\ qread = [q \in Callers |-> << >>]
    /\ qres = [q \in Callers |-> << >>]
    /\ envSteps = 0
    /\ lister = [p \in Plurals |-> "ok"]
    /\ enumerated = << >>
    /\ built = {}
    /\ written = {}

\* The state after init() and a first readKindCompositionFile of one of the
\* composition files, over one of the clusters.
InitTrees ==
    /\ \E doc \in TreeDocs :
         /\ KindPluralMap = LoadPlural(InitKindPluralMap, doc)
         /\ kindVersionMap = LoadVersion(InitKindVersionMap, doc)
         /\ compositionMap = LoadComposition(InitCompositionMap, doc)
    /\ cluster \in TreeClusters
    /\ AtStart

\* The refresh loop over a cluster that does not change, and queries between
\* the cycles.
NextTrees ==
    \/ Quiet /\ Reload
    \/ Quiet /\ EnumerateKind
    \/ Quiet /\ Build
    \/ Quiet /\ StoreLock
    \/ Quiet /\ StoreCopy
    \/ Quiet /\ StoreUnlock
    \/ Quiet /\ CollectKind
    \/ Quiet /\ PurgeBegin
    \/ Quiet /\ PurgeAssign
    \/ Quiet /\ Sleep
    \/ \E q \in OneCaller, k \in TreeQueryKinds, n \in TreeQueryNames :
            rpc = "reload" /\ CallLock(q, "get", k, n)
    \/ \E q \in OneCaller : GetProvenanceReturn(q)
    \/ \E q \in OneCaller : Forget(q)

SpecTrees == InitTrees /\ [][NextTrees]_vars

\* The greatest of a set of naturals, 0 for the empty set.
Max(S) == IF S = {} THEN 0 ELSE CHOOSE n \in S : \A k \in S : k <= n

\* The length of the longest child chain of compositionMap that starts at
\* kind (the number of its edges); the schema has no cycle.
RECURSIVE LongestChain(_)
LongestChain(kind) ==
    IF kind \notin DOMAIN compositionMap THEN 0
    ELSE Max({ 1 + LongestChain(compositionMap[kind][i]) :
                    i \in DOMAIN compositionMap[kind] })

\* The length of the longest chain of live instances below the instance
\* `name` of `kind`: each instance is of a child kind of the one before and
\* carries its name as owner.
RECURSIVE LongestOwned(_, _)
LongestOwned(kind, name) ==
    IF kind \notin DOMAIN compositionMap THEN 0
    ELSE Max(UNION {
            LET childKind == compositionMap[kind][i]
                listed == MapGet(cluster, MapGet(KindPluralMap, childKind, EmptyString),
                                 << >>)
            IN { 1 + LongestOwned(childKind, listed[j].name) :
                    j \in { k \in DOMAIN listed : listed[k].owner = name } } :
            i \in DOMAIN compositionMap[kind] })

\* buildProvenance, lines 606 and 625-629: the depth of the deepest recursive
\* call below the first one.  A call is made at level L for each member of a
\* slice of Level L; the first call runs at level 1.
BuildDepth(tree) ==
    Max({ tree[i].Level - 1 : i \in { j \in DOMAIN tree : tree[j].Children # << >> } })

\* ------------------------------------------------------- status derivation

\* A raw deployment x: without a status, or with a status that reports a
\* phase (possibly none) and the three replica counts.
StatusItems ==
    { [name |-> X, owner |-> EmptyString, keys |-> {"metadata"}, phase |-> "",
       replicas |-> 0, readyReplicas |-> 0, availableReplicas |-> 0] }
    \cup { [name |-> X, owner |-> EmptyString, keys |-> ks, phase |-> ph,
            replicas |-> r, readyReplicas |-> rr, availableReplicas |-> ar] :
                ks \in { {"metadata", "status"}, {"metadata", "spec", "status"} },
                ph \in {"", "Running"},
                r \in 0 .. MaxReplicas, rr \in 0 .. MaxReplicas,
                ar \in 0 .. MaxReplicas }

\* The state after init(), over a cluster that holds one such deployment.
InitStatus ==
    /\ KindPluralMap = InitKindPluralMap
    /\ kindVersionMap = InitKindVersionMap
    /\ compositionMap = InitCompositionMap
    /\ \E item \in StatusItems :
         cluster = (deployments :> <<item>>) @@ (replicasets :> << >>)
                        @@ (pods :> << >>)
    /\ AtStart

SpecStatus == InitStatus /\ [][NextTrees]_vars

\* ----------------------------------------------------------------- claims

\* C1: at the end of every cycle (after the purge) the store holds a record
\* for (kind, name) exactly when the cycle's listing of that kind returned
\* that name: a record whose (kind, name) is gone from the cluster is removed
\* even if an instance of another kind still carries the same name.
C1_PurgeExactByKindAndName ==
    rpc = "sleep" =>
        \A kind \in DOMAIN compositionMap, name \in Names :
            (\E i \in DOMAIN clusterProvenance :
                /\ clusterProvenance[i].Kind = kind
                /\ clusterProvenance[i].Name = name)
            <=> name \in MapGet(enumerated, kind, {})

\* C2: at most one of the refresh loop's store accesses (the upsert and the
\* purge's write of the collection) and the callers' reads is in progress.
C2_StoreAccessMutuallyExclusive ==
    LET refreshInside == IF rpc \in {"storing", "copying", "purging"} THEN 1 ELSE 0
        callersInside == Cardinality({ q \in Callers : qpc[q] = "reading" })
    IN refreshInside + callersInside <= 1

\* C3: every record a finished call has read carries a (status, tree) pair
\* that one upsert wrote as a whole, and every composition GetProvenance
\* returned has the status and the children of one such record.
C3_QueriesObserveWholeUpserts ==
    \A q \in Callers :
        qpc[q] = "done" =>
            /\ \A i \in DOMAIN qread[q] : qread[q][i] \in written
            /\ qop[q] = "get" =>
                \A j \in DOMAIN qres[q] :
                    \E w \in written :
                        /\ qres[q][j].Kind = ToLower(w.Kind)
                        /\ qres[q][j].Name = ToLower(w.Name)
                        /\ qres[q][j].Status = w.Status
                        /\ qres[q][j].Children =
                              getComposition(ToLower(w.Kind), ToLower(w.Name),
                                             w.Status, 1, w.CompositionTree,
                                             << >>).comp.Children

\* A call returned the deployment x while the loop was in the middle of a
\* cycle that had already replaced that record's status and tree with
\* different ones.
C3_Witness ==
    \E q \in Callers :
        /\ qpc[q] = "done"
        /\ qop[q] = "get"
        /\ qres[q] # << >>
        /\ rpc \in {"instances", "store", "kinds"}
        /\ \E w1 \in written, w2 \in built :
                /\ w1.Kind = DEPLOYMENT /\ w1.Name = X
                /\ w2.Kind = DEPLOYMENT /\ w2.Name = X
                /\ w1.Status # w2.Status
                /\ w1.CompositionTree # w2.CompositionTree
                /\ qread[q][1] = w2

\* C4: the store never holds two records with the same (kind, name).
C4_IdentityUnique ==
    \A i, j \in DOMAIN clusterProvenance :
        (/\ clusterProvenance[i].Kind = clusterProvenance[j].Kind
         /\ clusterProvenance[i].Name = clusterProvenance[j].Name) => i = j

\* A cycle is over in which a listing returned the same instance twice, and
\* the store holds records of two kinds under one name.
C4_Witness ==
    /\ rpc = "sleep"
    /\ \E i \in DOMAIN resourceInCluster :
            Cardinality({ b \in built : b.Name = resourceInCluster[i].MetaDataName }) >= 2
    /\ \E i, j \in DOMAIN clusterProvenance :
            /\ clusterProvenance[i].Name = clusterProvenance[j].Name
            /\ clusterProvenance[i].Kind # clusterProvenance[j].Kind
    /\ envSteps > 0

\* C5: on every store the refresh loop leaves between two of its accesses
\* (before each upsert, after the last one of a kind, after the purge), an
\* upsert applied twice with the same (kind, name, status, tree) leaves what
\* it leaves when applied once.
C5_UpsertIdempotent ==
    (Quiet /\ rpc \in {"reload", "store", "kinds", "sleep"}) =>
    \A kind \in DOMAIN compositionMap, name \in Names,
       status \in {"", "Running", "Ready"},
       tree \in {<< >>, compositionTree}
                  \cup { clusterProvenance[i].CompositionTree :
                            i \in DOMAIN clusterProvenance } :
        LET object == [ZeroMetaDataRef EXCEPT !.MetaDataName = name,
                                              !.Status = status]
            once == storeProvenance(clusterProvenance, object, kind, name, tree)
        IN storeProvenance(once, object, kind, name, tree) = once

\* The loop is inside the second upsert of an instance its listing returned
\* twice, and the upsert will leave the store as the first one left it.
C5_Witness ==
    /\ rpc = "copying"
    /\ idx = 2
    /\ topLevelMetaDataOwnerRefList[1] = topLevelMetaDataOwnerRefList[2]
    /\ storeProvenance(clusterProvenance, topLevelMetaDataOwnerRefList[idx],
                       resourceKind, topLevelMetaDataOwnerRefList[idx].MetaDataName,
                       compositionTree) = clusterProvenance
    /\ Len(clusterProvenance) >= 2

\* C6: the purge leaves exactly the records whose name is among the seen
\* names, in their order and with their status and tree.
C6_PurgeKeepsSeenNames ==
    rpc = "purging" =>
        presentList =
            SelectSeq(clusterProvenance,
                      LAMBDA prov : \E i \in DOMAIN resourceInCluster :
                                        resourceInCluster[i].MetaDataName = prov.Name)

\* A purge that removes a record and retains two.
C6_Witness ==
    /\ rpc = "purging"
    /\ Len(presentList) >= 2
    /\ Len(presentList) < Len(clusterProvenance)

\* C7: when the store holds a record whose tree is a chain of one instance
\* per level, GetProvenance(kind, name) with the record's kind and name
\* returns one composition: the root at Level 1 with the Kind and Name as
\* stored, its child at Level 2 with the kind and name of the stored slice.
C7_RoundTripAsStored ==
    \A q \in Callers :
        (qpc[q] = "done" /\ qop[q] = "get") =>
            \A i \in DOMAIN qread[q] :
                LET prov == qread[q][i]
                    tree == prov.CompositionTree
                IN (/\ prov.Kind = qkind[q]
                    /\ prov.Name = qname[q]
                    /\ Len(tree) = 1
                    /\ tree[1].Level = 2
                    /\ Len(tree[1].Children) = 1)
                   => qres[q] =
                        << [Level |-> 1, Kind |-> prov.Kind, Name |-> prov.Name,
                            Status |-> prov.Status,
                            Children |->
                                << [Level |-> 2, Kind |-> tree[1].ChildKind,
                                    Name |-> tree[1].Children[1].MetaDataName,
                                    Status |-> tree[1].Children[1].Status,
                                    Children |-> << >>] >>] >>

\* C8: the kind and the name of a query match the stored ones whatever their
\* case: the call returns what the call with the stored kind and name returns.
C8_QueryCaseInsensitive ==
    \A q \in Callers :
        (qpc[q] = "done" /\ qop[q] = "get") =>
            \A i \in DOMAIN qread[q] :
                LET prov == qread[q][i]
                IN (/\ ToLower(prov.Kind) = ToLower(qkind[q])
                    /\ ToLower(prov.Name) = ToLower(qname[q]))
                   => \E resolved \in [DOMAIN qread[q] -> ResolvedKinds(prov.Kind)] :
                        qres[q] = GetProvenance(qread[q], resolved, prov.Name)

\* C9: a wildcard query for kind K returns one composition per stored record
\* of kind K, in store order, each equal to the composition the query for
\* that record's name returns.
C9_WildcardIsEverySingle ==
    \A q \in Callers :
        (qpc[q] = "done" /\ qop[q] = "get" /\ qname[q] = Star) =>
            LET ofKind == SelectSeq(qread[q], LAMBDA prov : prov.Kind = qkind[q])
            IN /\ Len(qres[q]) = Len(ofKind)
               /\ \A j \in DOMAIN ofKind :
                    \A resolved \in [DOMAIN qread[q] -> ResolvedKinds(qkind[q])] :
                        GetProvenance(qread[q], resolved, ofKind[j].Name)
                            = << qres[q][j] >>

\* A wildcard query returned two compositions, each with a child, from a
\* store that also holds records of another kind.
C9_Witness ==
    \E q \in Callers :
        /\ qpc[q] = "done" /\ qop[q] = "get" /\ qname[q] = Star
        /\ Len(qres[q]) = 2
        /\ \A j \in 1 .. 2 : qres[q][j].Children # << >>
        /\ \E i \in DOMAIN qread[q] : qread[q][i].Kind # qkind[q]

\* C10: when a cycle is over, every kind of the schema was enumerated, and
\* every instance enumerated has a record of its own holding the status and
\* the tree that the cycle observed and built for it.
C10_EveryInstanceHasOwnRecord ==
    rpc = "sleep" =>
        /\ DOMAIN enumerated = DOMAIN compositionMap
        /\ \A kind \in DOMAIN enumerated :
             \A name \in enumerated[kind] :
                \E i \in DOMAIN clusterProvenance :
                    /\ clusterProvenance[i].Kind = kind
                    /\ clusterProvenance[i].Name = name
                    /\ clusterProvenance[i] \in built

\* A cycle is over that left a record for a replica set which is also a
\* member of a slice in the tree of the deployment owning it.
C10_Witness ==
    /\ rpc = "sleep"
    /\ \E i, j \in DOMAIN clusterProvenance :
        /\ clusterProvenance[i].Kind = DEPLOYMENT
        /\ clusterProvenance[j].Kind = REPLICA_SET
        /\ clusterProvenance[j] \in built
        /\ \E s \in DOMAIN clusterProvenance[i].CompositionTree :
            LET slice == clusterProvenance[i].CompositionTree[s]
            IN /\ slice.ChildKind = REPLICA_SET
               /\ \E m \in DOMAIN slice.Children :
                    slice.Children[m].MetaDataName = clusterProvenance[j].Name

\* C11 as stated: for every acyclic schema and every set of live instances,
\* buildProvenance terminates and the deepest recursion it reaches equals the
\* length of the schema's longest child chain from the root kind.
C11_DepthEqualsLongestChain ==
    rpc = "store" => BuildDepth(compositionTree) = LongestChain(resourceKind)

\* C11, amended: buildProvenance terminates, and the deepest recursion it
\* reaches equals the length of the longest chain of live instances below
\* the root instance, which is at most the schema's longest child chain
\* from the root kind.
C11_DepthIsLongestOwnedChain ==
    rpc = "store" =>
        LET name == topLevelMetaDataOwnerRefList[idx].MetaDataName
        IN /\ BuildDepth(compositionTree) = LongestOwned(resourceKind, name)
           /\ BuildDepth(compositionTree) <= LongestChain(resourceKind)

\* A build that went as deep as a schema chain of two edges allows, and one
\* of the same kind under a diamond schema that did not.
C11_Witness ==
    /\ rpc = "store"
    /\ resourceKind = DEPLOYMENT
    /\ LongestChain(resourceKind) = 2
    /\ BuildDepth(compositionTree) = 2
    /\ Len(compositionTree) >= 3

\* C12: a listing of a child kind that fails during a build does not stop
\* the loop, and the tree the build returns holds an empty slice for every
\* child kind whose listing failed.
C12_ListerFailureDegrades ==
    /\ rpc # "panic_build"
    /\ rpc = "store" =>
         \A i \in DOMAIN compositionTree :
            lister[MapGet(KindPluralMap, compositionTree[i].ChildKind, EmptyString)] # "ok"
                => compositionTree[i].Children = << >>

\* C13: no schema load that fails stops the loop.
C13_LoadFailureKeepsLoop ==
    rpc # "panic_load"

\* C14: a query whose kind and name match no record of the store it read
\* (whatever the case of the letters) returns the empty array.
C14_NoMatchIsEmpty ==
    \A q \in Callers :
        (qpc[q] = "done" /\ qop[q] = "get") =>
            ((~\E i \in DOMAIN qread[q] :
                    /\ ToLower(qread[q][i].Kind) = ToLower(qkind[q])
                    /\ \/ ToLower(qname[q]) = Star
                       \/ ToLower(qread[q][i].Name) = ToLower(qname[q]))
             => qres[q] = << >>)

\* A query for a name no deployment has returned the empty array from a
\* store that holds a deployment; so did a query for a kind of no table.
C14_Witness ==
    \E q \in Callers :
        /\ qpc[q] = "done" /\ qop[q] = "get"
        /\ qres[q] = << >>
        /\ \E i \in DOMAIN qread[q] : qread[q][i].Kind = DEPLOYMENT
        /\ \/ qkind[q] = DEPLOYMENT /\ qname[q] = Z
           \/ qkind[q] = JOB /\ qname[q] = X

\* C15: the status parseMetaData derives for a listed instance is "Ready"
\* exactly when replicas > 0 and replicas = readyReplicas = availableReplicas,
\* and otherwise the reported phase (empty when none is reported).
C15_StatusDerivation ==
    rpc \in {"instances", "store"} =>
        \A i \in DOMAIN topLevelMetaDataOwnerRefList :
            \A k \in DOMAIN cluster[KindPluralMap[resourceKind]] :
                LET item == cluster[KindPluralMap[resourceKind]][k]
                    ref == topLevelMetaDataOwnerRefList[i]
                    allEqual == /\ item.replicas > 0
                                /\ item.replicas = item.readyReplicas
                                /\ item.replicas = item.availableReplicas
                IN item.name = ref.MetaDataName =>
                      /\ (ref.Status = "Ready") <=> allEqual
                      /\ ~allEqual => ref.Status = item.phase

\* A listed deployment whose ready replicas equal its replicas while its
\* available replicas do not, and that reports a phase.
C15_Witness ==
    /\ rpc = "instances"
    /\ resourceKind = DEPLOYMENT
    /\ Len(topLevelMetaDataOwnerRefList) >= 1
    /\ topLevelMetaDataOwnerRefList[1].Status = "Running"
    /\ \E k \in DOMAIN cluster[deployments] :
         /\ cluster[deployments][k].replicas > 0
         /\ cluster[deployments][k].replicas = cluster[deployments][k].readyReplicas
         /\ cluster[deployments][k].replicas # cluster[deployments][k].availableReplicas

\* The nodes of a returned composition, each with the node it hangs under
\* (the root hangs under itself).
RECURSIVE Nested(_, _)
Nested(node, parent) ==
    {<<node, parent>>}
        \cup UNION { Nested(node.Children[i], node) : i \in DOMAIN node.Children }

\* C16: in every tree GetProvenance returns the root has Level 1 and every
\* other node has the Level of the node it hangs under plus 1.
C16_ChildLevelIsParentPlusOne ==
    \A q \in Callers :
        (qpc[q] = "done" /\ qop[q] = "get") =>
            \A j \in DOMAIN qres[q] :
                /\ qres[q][j].Level = 1
                /\ \A pair \in Nested(qres[q][j], qres[q][j]) :
                        pair[1] # pair[2] => pair[1].Level = pair[2].Level + 1

\* C17: when no two slices of a record share (Level, ChildKind), every node
\* of the tree returned for the record, below the root, is a member of the
\* slice of its Level and Kind, and hangs under the instance whose name that
\* member carries as owner (the instance whose build emitted the slice), one
\* level above it.
C17_NestedUnderOwner ==
    \A q \in Callers :
        (qpc[q] = "done" /\ qop[q] = "get") =>
            \A i \in DOMAIN qread[q] :
                LET prov == qread[q][i]
                    tree == prov.CompositionTree
                    unambiguous ==
                        \A a, b \in DOMAIN tree :
                            (tree[a].Level = tree[b].Level
                                /\ tree[a].ChildKind = tree[b].ChildKind) => a = b
                    returned == { j \in DOMAIN qres[q] :
                                    /\ qres[q][j].Kind = ToLower(prov.Kind)
                                    /\ qres[q][j].Name = ToLower(prov.Name) }
                IN unambiguous =>
                    \A j \in returned :
                        \A pair \in Nested(qres[q][j], qres[q][j]) :
                            pair[1] # pair[2] =>
                                \E s \in DOMAIN tree :
                                    /\ tree[s].Level = pair[1].Level
                                    /\ tree[s].ChildKind = pair[1].Kind
                                    /\ pair[2].Level = tree[s].Level - 1
                                    /\ \E m \in DOMAIN tree[s].Children :
                                        /\ tree[s].Children[m].MetaDataName = pair[1].Name
                                        /\ tree[s].Children[m].OwnerReferenceName
                                                = pair[2].Name

\* The number of nodes below `node` with the given Level, Kind and Name.
RECURSIVE Occurrences(_, _, _, _)
Occurrences(children, level, kind, name) ==
    IF children = << >> THEN 0
    ELSE (IF /\ Head(children).Level = level
             /\ Head(children).Kind = kind
             /\ Head(children).Name = name THEN 1 ELSE 0)
            + Occurrences(Head(children).Children, level, kind, name)
            + Occurrences(Tail(children), level, kind, name)

\* C18: every member of every slice of a stored record is a node of the tree
\* GetProvenance returns for the record, exactly once.
C18_EveryMemberOnce ==
    \A q \in Callers :
        (qpc[q] = "done" /\ qop[q] = "get") =>
            \A i \in DOMAIN qread[q] :
                LET prov == qread[q][i]
                    tree == prov.CompositionTree
                IN \A j \in DOMAIN qres[q] :
                     (/\ qres[q][j].Kind = ToLower(prov.Kind)
                      /\ qres[q][j].Name = ToLower(prov.Name)) =>
                        \A s \in DOMAIN tree :
                            \A m \in DOMAIN tree[s].Children :
                                Occurrences(qres[q][j].Children, tree[s].Level,
                                            tree[s].ChildKind,
                                            tree[s].Children[m].MetaDataName) = 1


\* ------------------------------------------------------ what a build emits

\* The sequences of a sequence, one after the other.
RECURSIVE Concat(_)
Concat(seqs) == IF seqs = << >> THEN << >> ELSE Head(seqs) \o Concat(Tail(seqs))

\* The members of a listing that a slice under the parent `name` holds: those
\* whose owner reference names the parent and which no earlier such member
\* of the listing equals in name, in the order of the listing.
KeptMembers(listing, name) ==
    LET kept(i) ==
            /\ listing[i].OwnerReferenceName = name
            /\ \A j \in 1 .. (i - 1) :
                    listing[j].OwnerReferenceName = name
                        => listing[j].MetaDataName # listing[i].MetaDataName
        positions == SelectSeq([i \in DOMAIN listing |-> i], kept)
    IN [k \in DOMAIN positions |-> listing[positions[k]]]

\* What buildProvenance(kind, name, depth) is to emit: per child kind in
\* schema order one slice of Level depth + 1 with the kept members, then what
\* is to be emitted for each kept member in order.
RECURSIVE Emitted(_, _, _, _)
Emitted(kind, name, depth, ord) ==
    IF kind \notin DOMAIN compositionMap THEN << >>
    ELSE LET childKinds == compositionMap[kind]
             forChildKind(childKind) ==
                 LET members == KeptMembers(getResourceNames(childKind, ord), name)
                 IN << [Level |-> depth + 1, ChildKind |-> childKind,
                        Children |-> members] >>
                    \o Concat([m \in DOMAIN members |->
                                  Emitted(childKind, members[m].MetaDataName,
                                          depth + 1, ord)])
         IN Concat([c \in DOMAIN childKinds |-> forChildKind(childKinds[c])])

\* C19: the tree a build hands to the store is, for some order in which the
\* listings' keys were ranged over, exactly what is to be emitted for the
\* root instance at depth 1: per child kind in schema order one slice of
\* Level depth + 1 holding the listed instances owned by that name, the
\* first of every name, in listing order, followed at once by the results
\* for each of them; a kind the schema does not hold, and one with an empty
\* child list, yield no slices.
C19_BuildEmitsSlices ==
    rpc = "store" =>
        /\ \E ord \in KeyOrders :
                compositionTree =
                    Emitted(resourceKind,
                            topLevelMetaDataOwnerRefList[idx].MetaDataName, 1, ord)
        /\ \A ord \in KeyOrders, name \in Names :
                /\ buildProvenance(JOB, name, 1, << >>, ord) = << >>
                /\ \A kind \in DOMAIN compositionMap :
                        compositionMap[kind] = << >>
                            => buildProvenance(kind, name, 1, << >>, ord) = << >>

\* A build whose listing of replica sets returned one of two siblings twice:
\* the slice holds each once, and the pods of each follow it.
C19_Witness ==
    /\ rpc = "store"
    /\ resourceKind = DEPLOYMENT
    /\ Len(compositionTree) = 3
    /\ Len(compositionTree[1].Children) = 2
    /\ compositionTree[2].Children # << >>
    /\ compositionTree[3].Children # << >>
    /\ \E ord \in KeyOrders :
            /\ compositionTree =
                    Emitted(resourceKind,
                            topLevelMetaDataOwnerRefList[idx].MetaDataName, 1, ord)
            /\ Len(getResourceNames(REPLICA_SET, ord)) = 3

\* --------------------------------------------------- the frame of an upsert

\* The kinds, statuses and trees an upsert is tried with on a reached store:
\* those of the call the loop is about to make, and others.
UpsertKinds == DOMAIN compositionMap \cup {JOB}
UpsertStatuses == {"", "Running", "Ready"}
UpsertTrees == {<< >>, compositionTree}

\* C20: on every store the loop is about to upsert into, an upsert of
\* (kind, name) with a status and a tree changes only the targeted record:
\* if a record of that kind and name exists, there is one, the store keeps
\* its length, that position holds the kind, the name, the new status and
\* the new tree, and every other position holds what it held; if none
\* exists, the store grows by one, the new record is the last, and every
\* earlier position holds what it held.
C20_StoreChangesOnlyTarget ==
    rpc = "store" =>
    \A kind \in UpsertKinds, name \in Names, status \in UpsertStatuses,
       tree \in UpsertTrees :
        LET object == [ZeroMetaDataRef EXCEPT !.MetaDataName = name,
                                              !.Status = status]
            record == [Kind |-> kind, Name |-> name, Status |-> status,
                       CompositionTree |-> tree]
            before == clusterProvenance
            after == storeProvenance(before, object, kind, name, tree)
            targets == { i \in DOMAIN before :
                            before[i].Kind = kind /\ before[i].Name = name }
        IN IF targets # {}
           THEN /\ Cardinality(targets) = 1
                /\ Len(after) = Len(before)
                /\ \A i \in DOMAIN before :
                        after[i] = IF i \in targets THEN record ELSE before[i]
           ELSE /\ Len(after) = Len(before) + 1
                /\ after[Len(after)] = record
                /\ \A i \in DOMAIN before : after[i] = before[i]

\* The loop is about to upsert an instance whose record is neither the only
\* nor the last one of the store, with a tree, and the store holds another
\* record of the same name.
C20_Witness ==
    /\ rpc = "store"
    /\ compositionTree # << >>
    /\ Len(clusterProvenance) >= 3
    /\ \E i, j \in DOMAIN clusterProvenance :
            /\ i < j
            /\ clusterProvenance[i].Kind = resourceKind
            /\ clusterProvenance[i].Name = topLevelMetaDataOwnerRefList[idx].MetaDataName
            /\ clusterProvenance[j].Name = clusterProvenance[i].Name
            /\ clusterProvenance[j].Kind # clusterProvenance[i].Kind

\* ------------------------------------------------ the order of a cycle

\* The names of a list of instances.
NamesOf(list) == { list[i].MetaDataName : i \in DOMAIN list }

\* The records a step of storeProvenance hands over.
Upserted == built' \ built

\* What one step of BuildCompositionTree has to respect.
CycleOrder ==
    \* readKindCompositionFile comes first: nothing of this cycle is
    \* enumerated or upserted when it runs, and kinds are enumerated only
    \* after it.
    /\ (rpc = "reload" /\ rpc' # "reload")
            => /\ enumerated = << >> /\ built = {} /\ rpc' = "kinds"
               /\ resourceInCluster' = << >>
    /\ (enumerated' # enumerated /\ enumerated' # << >>) => rpc = "kinds"
    \* an instance is upserted with the tree its build has finished.
    /\ \A rec \in Upserted :
            /\ rec.CompositionTree = compositionTree
            /\ rec.Kind = resourceKind
            /\ rec.Name \in enumerated[resourceKind]
            /\ \E ord \in KeyOrders :
                    compositionTree = Emitted(rec.Kind, rec.Name, 1, ord)
    \* the purge starts after every kind of the cycle was enumerated and
    \* every instance listed was upserted, with the names of all of them.
    /\ (rpc # "purging" /\ rpc' = "purging")
            => /\ DOMAIN enumerated = DOMAIN compositionMap
               /\ \A kind \in DOMAIN enumerated : \A name \in enumerated[kind] :
                      \E rec \in built : rec.Kind = kind /\ rec.Name = name
               /\ NamesOf(resourceInCluster)
                      = UNION { enumerated[kind] : kind \in DOMAIN enumerated }
               /\ presentList' = purgeCompositionOfDeletedItems(clusterProvenance,
                                                                 resourceInCluster)
    \* one purge, then the sleep, then the next cycle.
    /\ (rpc = "purging" /\ rpc' # "purging")
            => rpc' = "sleep" /\ clusterProvenance' = presentList
    /\ (rpc # "sleep" /\ rpc' = "sleep") => rpc = "purging"
    /\ (rpc = "sleep" /\ rpc' # "sleep") => rpc' = "reload"
    /\ (rpc # "reload" /\ rpc' = "reload") => rpc = "sleep"

\* C21: every step of a refresh cycle keeps the fixed order: the schema is
\* reloaded before any kind is enumerated; an instance is upserted with the
\* tree built for it, complete; the purge starts once, after the upserts of
\* every kind of the cycle and with the names seen across all of them; the
\* sleep follows the purge and the next cycle starts only after the sleep.
C21_CycleFollowsFixedOrder == [][CycleOrder]_vars

\* A cycle has gone through all three kinds, upserted three instances with
\* their trees and purged; the loop sleeps.
C21_Witness ==
    /\ rpc = "sleep"
    /\ DOMAIN enumerated = DOMAIN compositionMap
    /\ Cardinality(DOMAIN enumerated) = 3
    /\ Cardinality(built) >= 3
    /\ \E rec \in built : Len(rec.CompositionTree) >= 2
    /\ Len(clusterProvenance) >= 2

\* ------------------------------------------- the lock and the network

\* The refresh loop is at a call that goes over the network: the schema
\* source (line 115), the listing of a kind (line 119), the listings of a
\* build (line 125, through lines 613-614).
InNetworkCall ==
    \/ rpc = "reload"
    \/ rpc = "kinds" /\ resourceKindList # << >>
    \/ rpc = "instances" /\ idx <= Len(topLevelMetaDataOwnerRefList)

\* C22: whenever the refresh loop is at a schema-source or lister call, the
\* lock of the store is free or held by a caller of a query, never by the
\* loop; the loop holds it only inside storeProvenance.
C22_NoLockAcrossNetworkCall ==
    /\ InNetworkCall => (mux = Free \/ \E q \in Callers : mux = ByCaller(q))
    /\ mux = ByRefresh => rpc \in {"storing", "copying"}

\* The loop, having upserted before, is at the listings of a build while a
\* caller is inside GetProvenance with the lock.
C22_Witness ==
    /\ rpc = "instances"
    /\ InNetworkCall
    /\ written # {}
    /\ \E q \in Callers :
            mux = ByCaller(q) /\ qpc[q] = "reading" /\ qop[q] = "get"

\* ------------------------------------------------------- cyclic schemas

\* A composition file in which ReplicaSet and Pod are each other's child.
CyclicDocs ==
    << [Kind |-> REPLICA_SET, Plural |-> replicasets,
        Endpoint |-> "apis/extensions/v1beta1", Composition |-> <<POD>>],
       [Kind |-> POD, Plural |-> pods, Endpoint |-> "api/v1",
        Composition |-> <<REPLICA_SET>>] >>

\* Deployment x owning replica set y, which owns no pod.
ChildlessCluster ==
    (deployments :> << ReadyItem(X, EmptyString) >>)
        @@ (replicasets :> << PhaseItem(Y, X) >>)
        @@ (pods :> << >>)

\* Replica set x whose owner reference names y, and pod y whose owner
\* reference names x.
MutualCluster ==
    (deployments :> << >>)
        @@ (replicasets :> << PhaseItem(X, Y) >>)
        @@ (pods :> << PhaseItem(Y, X) >>)

\* The clusters the loop runs over under the cyclic schema; in none of them
\* an instance names itself as owner.  In ChainCluster deployment x owns
\* replica set y, which owns pod x.
CyclicClusters == { ChildlessCluster, ChainCluster, MutualCluster }

\* compositionMap leads from kind back to kind.
RECURSIVE ReachesKind(_, _, _)
ReachesKind(from, to, seen) ==
    /\ from \in DOMAIN compositionMap
    /\ \E c \in DOMAIN compositionMap[from] :
            LET child == compositionMap[from][c]
            IN \/ child = to
               \/ child \notin seen /\ ReachesKind(child, to, seen \cup {child})
SchemaCyclic == \E kind \in DOMAIN compositionMap : ReachesKind(kind, kind, {})

\* No listed instance has an owner reference that names the instance itself.
NoSelfOwner ==
    \A plural \in DOMAIN cluster : \A i \in DOMAIN cluster[plural] :
        cluster[plural][i].owner # cluster[plural][i].name

\* buildProvenance, lines 604-629: the call for (kind, name) leads, through
\* the recursion of line 628, to a call with the arguments of one that has
\* not returned.  The listings are what they were, so that call does what
\* the first did: the recursion has no end.
RECURSIVE Reenters(_, _, _, _)
Reenters(kind, name, onStack, ord) ==
    IF kind \notin DOMAIN compositionMap THEN FALSE
    ELSE IF <<kind, name>> \in onStack THEN TRUE
    ELSE \E c \in DOMAIN compositionMap[kind] :
            LET childResourceKind == compositionMap[kind][c]
                childrenList == filterChildren(getResourceNames(childResourceKind, ord),
                                               name)
            IN \E m \in DOMAIN childrenList :
                    Reenters(childResourceKind, childrenList[m].MetaDataName,
                             onStack \cup {<<kind, name>>}, ord)

\* The build of the next top-level object returns.
BuildReturns ==
    /\ rpc = "instances"
    /\ idx <= Len(topLevelMetaDataOwnerRefList)
    /\ \A ord \in KeyOrders :
            ~Reenters(resourceKind, topLevelMetaDataOwnerRefList[idx].MetaDataName,
                      {}, ord)

\* lines 125 and 628: the build of the next top-level object recurses
\* without end; the tree grows until the goroutine's stack is exhausted and
\* the process ends.
BuildOverflow ==
    /\ rpc = "instances"
    /\ idx <= Len(topLevelMetaDataOwnerRefList)
    /\ \E ord \in KeyOrders :
            Reenters(resourceKind, topLevelMetaDataOwnerRefList[idx].MetaDataName,
                     {}, ord)
    /\ rpc' = "overflow"
    /\ UNCHANGED <<schemaVars, cluster, clusterProvenance, mux, resourceKindList,
                   resourceKind, topLevelMetaDataOwnerRefList, idx, compositionTree,
                   resourceInCluster, presentList, callVars, histVars,
                   envSteps, lister>>

\* The state after init() and a first readKindCompositionFile of the cyclic
\* composition file, over one of the clusters.
InitCyclic ==
    /\ KindPluralMap = LoadPlural(InitKindPluralMap, CyclicDocs)
    /\ kindVersionMap = LoadVersion(InitKindVersionMap, CyclicDocs)
    /\ compositionMap = LoadComposition(InitCompositionMap, CyclicDocs)
    /\ cluster \in CyclicClusters
    /\ AtStart

\* The refresh loop over a cluster that does not change.
NextCyclic ==
    \/ Reload
    \/ EnumerateKind
    \/ BuildReturns /\ Build
    \/ BuildOverflow
    \/ StoreLock
    \/ StoreCopy
    \/ StoreUnlock
    \/ CollectKind
    \/ PurgeBegin
    \/ PurgeAssign
    \/ Sleep

SpecCyclic == InitCyclic /\ [][NextCyclic]_vars

\* C23: under a schema whose kind-to-children mapping has a cycle, and a
\* lister that returns no instance whose owner reference names the instance
\* itself, every build of the refresh loop returns.
C23_CyclicSchemaBuildTerminates ==
    (SchemaCyclic /\ NoSelfOwner) => rpc # "overflow"

\* ------------------------------------------------- queries are read-only

\* A step of a caller: its position in GetProvenance or PrintProvenance, or
\* what it holds, changes.
CallerStep == callVars' # callVars

\* What the call that caller q has returned from would return if made again
\* now, for every key the range over KindPluralMap can stop at.
SecondCall(q) ==
    IF qop[q] = "get"
    THEN { GetProvenance(clusterProvenance, resolved, qname[q]) :
             resolved \in [DOMAIN clusterProvenance -> ResolvedKinds(qkind[q])] }
    ELSE { PrintProvenance(clusterProvenance) }

\* The refresh loop has taken no step since q returned and is not inside
\* the assignment of the purge, and the same call made again returns what q
\* holds.
SecondCallAgrees ==
    \A q \in Callers :
        (qpc[q] = "done" /\ rpc # "purging") => SecondCall(q) = {qres[q]}

\* C24: no step of GetProvenance or PrintProvenance changes the store (the
\* records, their order, statuses and flat trees), and a call repeated with
\* no refresh step in between returns what the first returned.
C24_QueriesReadOnly ==
    /\ [][CallerStep => clusterProvenance' = clusterProvenance]_vars
    /\ []SecondCallAgrees

\* A caller holds the nested tree GetProvenance returned for a store of two
\* records or more, the first with a tree; the store is as the call found it.
C24_Witness ==
    \E q \in Callers :
        /\ qpc[q] = "done"
        /\ qop[q] = "get"
        /\ rpc # "purging"
        /\ Len(clusterProvenance) >= 2
        /\ clusterProvenance[1].CompositionTree # << >>
        /\ qread[q] = clusterProvenance
        /\ qres[q] # << >>
        /\ qres[q][1].Children # << >>
=============================================================================
